---- MODULE Spec2Model ----
(***************************************************************************)
(* X12 278 X215 QRE analyzer (scripts/qre-analyzer/x12_278_qre_analyzer.py) *)
(*                                                                         *)
(* One X12_278_QRE_Analyzer object, its configuration, and the calls of    *)
(* analyze_file made on it.  Text is a sequence of one-character strings,  *)
(* so that split, strip and startswith are computed as Python computes     *)
(* them.  Python lists are objects of a heap and are held by reference:    *)
(* self.results, self.segments_found and the lists of a returned report    *)
(* are heap addresses, `self.results = []` binds a new object and          *)
(* `self.results.append(x)` changes the object bound at that moment.       *)
(* A step is one statement of analyze_file; threads that share the         *)
(* analyzer interleave between statements.  The file_path of a report is   *)
(* the caller's argument copied unchanged and is left out.                 *)
(***************************************************************************)
EXTENDS Integers, Sequences, FiniteSets, TLC

VARIABLES config, files, heap, self_results, self_segments_found,
          self_query_method, pc, content, segments, returned

vars == <<config, files, heap, self_results, self_segments_found,
          self_query_method, pc, content, segments, returned>>

(***************************************************************************)
(* Bounds of the model.                                                    *)
(***************************************************************************)
\* records per input text
MaxSegs == 2
\* entries of qreRequirements.requiredSegments
MaxReq == 2
\* analyze_file calls made one after the other on one analyzer
MaxRuns == 2

Threads == {1, 2}

(***************************************************************************)
(* Text.                                                                   *)
(***************************************************************************)
\* the characters str.strip() removes, as far as the inputs use them
Whitespace == {" ", "\t", "\n", "\r", "\f"}

Min(S) == CHOOSE x \in S : \A y \in S : x <= y
Max(S) == CHOOSE x \in S : \A y \in S : x >= y

\* str.strip()
Strip(s) ==
    LET keep == {i \in 1..Len(s) : s[i] \notin Whitespace}
    IN  IF keep = {} THEN <<>> ELSE SubSeq(s, Min(keep), Max(keep))

\* str.split(c) for a one-character separator c: never an empty list
RECURSIVE Split(_, _)
Split(s, c) ==
    LET at == {i \in 1..Len(s) : s[i] = c}
    IN  IF at = {} THEN <<s>>
        ELSE <<SubSeq(s, 1, Min(at) - 1)>> \o Split(SubSeq(s, Min(at) + 1, Len(s)), c)

\* str.startswith(p), str.endswith(p)
StartsWith(s, p) == Len(s) >= Len(p) /\ SubSeq(s, 1, Len(p)) = p
EndsWith(s, p) == Len(s) >= Len(p) /\ SubSeq(s, Len(s) - Len(p) + 1, Len(s)) = p

\* 'c'.join(parts)
RECURSIVE Join(_, _)
Join(parts, c) ==
    IF parts = <<>> THEN <<>>
    ELSE IF Len(parts) = 1 THEN parts[1]
    ELSE parts[1] \o <<c>> \o Join(Tail(parts), c)

\* [s.strip() for s in seq]
StripEach(seq) == [i \in 1..Len(seq) |-> Strip(seq[i])]

\* an Optional value: None is <<>>, a value x is <<x>>
None == <<>>
Some(x) == <<x>>

(***************************************************************************)
(* The literals of the program.                                            *)
(***************************************************************************)
Tilde == "~"
Star == "*"
ISA == <<"I", "S", "A">>
GS == <<"G", "S">>
ST == <<"S", "T">>
BHT == <<"B", "H", "T">>
UM == <<"U", "M">>
HCR == <<"H", "C", "R">>
REF == <<"R", "E", "F">>
NM1 == <<"N", "M", "1">>
DMG == <<"D", "M", "G">>
T278 == <<"2", "7", "8">>
X215 == <<"X", "2", "1", "5">>
BHT0007 == <<"0", "0", "0", "7">>
HcrCodes == {<<"I", "1">>, <<"A", "1">>, <<"A", "2">>, <<"A", "3">>, <<"A", "4">>}
RefD9Prefix == REF \o <<Star>> \o <<"D", "9">> \o <<Star>>
Nm1IlPrefix == NM1 \o <<Star>> \o <<"I", "L">> \o <<Star>>

(***************************************************************************)
(* Segment extraction (analyze_file, lines 83-91).                         *)
(***************************************************************************)
\* ExtractSegments with the filter on the untrimmed record: if s
ExtractSegmentsUntrimmedTest(text) ==
    StripEach(SelectSeq(Split(text, Tilde), LAMBDA s : s # <<>>))

\* segments = [s.strip() for s in content.split('~') if s.strip()]
ExtractSegments(text) ==
    StripEach(SelectSeq(Split(text, Tilde), LAMBDA s : Strip(s) # <<>>))

\* seg_id = segment.split('*')[0]
SegId(segment) == Split(segment, Star)[1]

\* the identifiers the loop appends to self.segments_found
ExtractIds(segs) ==
    LET truthy == SelectSeq(segs, LAMBDA s : s # <<>>)
    IN  [i \in 1..Len(truthy) |-> SegId(truthy[i])]

(***************************************************************************)
(* Findings (ValidationResult).  The message of a finding is its code's    *)
(* fixed text with `value` (the observed element or identifier) or `count` *)
(* (the number ENV002 reports) interpolated; `value` is also the entry of  *)
(* the context mapping where the code sets one.                            *)
(***************************************************************************)
ERROR == "ERROR"
WARNING == "WARNING"
INFO == "INFO"

ValidationResult(sev, code, seg, value, count) ==
    [severity |-> sev, code |-> code, segment |-> seg, value |-> value, count |-> count]

\* [s for s in segments if s.startswith('XXX*')]
SegmentsStarting(segs, id) == SelectSeq(segs, LAMBDA s : StartsWith(s, id \o <<Star>>))

\* _validate_envelopes: the ISA check
IsaFindings(segs) ==
    LET isa_segments == SegmentsStarting(segs, ISA)
    IN  IF Len(isa_segments) = 0
        THEN <<ValidationResult(ERROR, "ENV001", Some(ISA), None, 0)>>
        ELSE IF Len(isa_segments) > 1
        THEN <<ValidationResult(WARNING, "ENV002", Some(ISA), None, Len(isa_segments))>>
        ELSE <<>>

\* _validate_envelopes: the GS check
GsFindings(segs) ==
    IF Len(SegmentsStarting(segs, GS)) = 0
    THEN <<ValidationResult(ERROR, "ENV003", Some(GS), None, 0)>>
    ELSE <<>>

\* _validate_envelopes: the ST check
StFindings(segs) ==
    LET st_segments == SegmentsStarting(segs, ST)
    IN  IF Len(st_segments) = 0
        THEN <<ValidationResult(ERROR, "ENV004", Some(ST), None, 0)>>
        ELSE LET st_elements == Split(st_segments[1], Star)
             IN  (IF Len(st_elements) >= 2 /\ st_elements[2] # T278
                  THEN <<ValidationResult(ERROR, "ENV005", Some(ST), Some(st_elements[2]), 0)>>
                  ELSE <<>>)
                 \o
                 (IF Len(st_elements) >= 4 /\ ~EndsWith(st_elements[4], X215)
                  THEN <<ValidationResult(WARNING, "ENV006", Some(ST), Some(st_elements[4]), 0)>>
                  ELSE <<>>)

\* _validate_envelopes: what it appends to self.results
EnvelopeFindings(cfg, segs) ==
    IF ~cfg.validateEnvelopes THEN <<>>
    ELSE IsaFindings(segs) \o GsFindings(segs) \o StFindings(segs)

\* RequiredFindings with a loop that stops at the first missing identifier
RECURSIVE RequiredFindingsFirstOf(_, _)
RequiredFindingsFirstOf(required, found) ==
    IF required = <<>> THEN <<>>
    ELSE IF \E i \in 1..Len(found) : found[i] = Head(required)
    THEN RequiredFindingsFirstOf(Tail(required), found)
    ELSE <<ValidationResult(ERROR, "QRE001", Some(Head(required)), Some(Head(required)), 0)>>

RequiredFindingsFirst(cfg, found) ==
    RequiredFindingsFirstOf(cfg.requiredSegments, found)

\* _validate_required_segments: what it appends to self.results, `found`
\* being the list self.segments_found is bound to
RECURSIVE RequiredFindingsOf(_, _)
RequiredFindingsOf(required, found) ==
    IF required = <<>> THEN <<>>
    ELSE (IF \E i \in 1..Len(found) : found[i] = Head(required)
          THEN <<>>
          ELSE <<ValidationResult(ERROR, "QRE001", Some(Head(required)), Some(Head(required)), 0)>>)
         \o RequiredFindingsOf(Tail(required), found)

RequiredFindings(cfg, found) ==
    RequiredFindingsOf(cfg.requiredSegments, found)

\* _validate_qre_requirements: the BHT check
BhtFindings(segs) ==
    LET bht_segments == SegmentsStarting(segs, BHT)
    IN  IF bht_segments = <<>> THEN <<>>
        ELSE LET bht_elements == Split(bht_segments[1], Star)
             IN  IF Len(bht_elements) >= 2 /\ bht_elements[2] # BHT0007
                 THEN <<ValidationResult(WARNING, "QRE002", Some(BHT), Some(bht_elements[2]), 0)>>
                 ELSE <<>>

\* _validate_qre_requirements: the UM check
UmFindings(segs) ==
    IF SegmentsStarting(segs, UM) = <<>>
    THEN <<ValidationResult(WARNING, "QRE003", Some(UM), None, 0)>>
    ELSE <<>>

\* _validate_qre_requirements: the HCR check
HcrFindings(segs) ==
    LET hcr_segments == SegmentsStarting(segs, HCR)
    IN  IF hcr_segments = <<>> THEN <<>>
        ELSE LET hcr_elements == Split(hcr_segments[1], Star)
             IN  IF Len(hcr_elements) >= 2 /\ hcr_elements[2] \notin HcrCodes
                 THEN <<ValidationResult(INFO, "QRE004", Some(HCR), Some(hcr_elements[2]), 0)>>
                 ELSE <<>>

\* _validate_qre_requirements: what it appends to self.results
QreFindings(cfg, segs) ==
    IF ~cfg.minimalDataPrinciple THEN <<>>
    ELSE BhtFindings(segs) \o UmFindings(segs) \o HcrFindings(segs)

\* _detect_query_method: the three predicates
has_ref_auth(segs) == \E i \in 1..Len(segs) : StartsWith(segs[i], RefD9Prefix)
has_member_id(segs) == \E i \in 1..Len(segs) : StartsWith(segs[i], Nm1IlPrefix)
has_dob(segs) == \E i \in 1..Len(segs) : StartsWith(segs[i], DMG \o <<Star>>)

\* _detect_query_method: the value it assigns to self.query_method
QueryMethod(segs) ==
    IF has_ref_auth(segs) THEN "ByAuthorizationNumber"
    ELSE IF has_member_id(segs) /\ has_dob(segs) THEN "ByMemberDemographics"
    ELSE "Unknown"

\* _detect_query_method: what it appends to self.results
QueryFindings(segs) ==
    IF has_ref_auth(segs)
    THEN <<ValidationResult(INFO, "QRE005", Some(REF), None, 0)>>
    ELSE IF has_member_id(segs) /\ has_dob(segs)
    THEN <<ValidationResult(INFO, "QRE006", Some(NM1), None, 0)>>
    ELSE <<ValidationResult(WARNING, "QRE007", Some(REF), None, 0)>>

\* sum(1 for r in results if r.severity == sev)
CountSeverity(results, sev) == Len(SelectSeq(results, LAMBDA r : r.severity = sev))

(***************************************************************************)
(* Reports (AnalysisReport).  `results` and `segments_found` are the       *)
(* addresses of the list objects the report holds.                         *)
(***************************************************************************)
\* IsValid without the failOnWarnings clause
IsValidErrorsOnly(cfg, error_count, warning_count) ==
    error_count = 0

\* is_valid = error_count == 0; if failOnWarnings: is_valid and warning_count == 0
IsValid(cfg, error_count, warning_count) ==
    IF cfg.failOnWarnings THEN error_count = 0 /\ warning_count = 0
    ELSE error_count = 0

\* getattr(self, 'query_method', None)
Unset == "<unset>"
GetQueryMethod(qm) == IF qm = Unset THEN "None" ELSE qm

\* _generate_report: the report built from the objects self.results and
\* self.segments_found are bound to (addresses res and seg of heap h)
GenerateReport(cfg, h, res, seg, qm) ==
    [tr3_version |-> cfg.tr3Version,
     is_valid |-> IsValid(cfg, CountSeverity(h[res], ERROR), CountSeverity(h[res], WARNING)),
     error_count |-> CountSeverity(h[res], ERROR),
     warning_count |-> CountSeverity(h[res], WARNING),
     info_count |-> CountSeverity(h[res], INFO),
     results |-> res,
     query_method |-> GetQueryMethod(qm),
     segments_found |-> seg]

\* CreateErrorReport reading the query method as _generate_report does
CreateErrorReportStale(cfg, res, seg) ==
    [tr3_version |-> cfg.tr3Version,
     is_valid |-> FALSE,
     error_count |-> 1,
     warning_count |-> 0,
     info_count |-> 0,
     results |-> res,
     query_method |-> GetQueryMethod(self_query_method),
     segments_found |-> seg]

\* _create_error_report: results and segments_found are two new lists, at
\* addresses res and seg
CreateErrorReport(cfg, res, seg) ==
    [tr3_version |-> cfg.tr3Version,
     is_valid |-> FALSE,
     error_count |-> 1,
     warning_count |-> 0,
     info_count |-> 0,
     results |-> res,
     query_method |-> "None",
     segments_found |-> seg]

\* the one finding of the error report
Sys001 == ValidationResult(ERROR, "SYS001", None, None, 0)

(***************************************************************************)
(* State.  files[t] are the files thread t analyzes, one call after the    *)
(* other, and returned[t] the reports its calls have returned so far;      *)
(* pc[t], content[t] and segments[t] are the position and the locals of    *)
(* the call thread t is in.                                                *)
(***************************************************************************)
Idle == "idle"

\* the file thread t's next call of analyze_file is given
CurrentFile(t) == files[t][Len(returned[t]) + 1]

\* the address a new list object gets
NewAddr(h) == Len(h) + 1

\* open(file_path) raises: return self._create_error_report(...)
ReadFail(t) ==
    /\ pc[t] = Idle
    /\ Len(returned[t]) < Len(files[t])
    /\ ~CurrentFile(t).readable
    /\ heap' = heap \o << <<Sys001>>, <<>> >>
    /\ returned' = [returned EXCEPT ![t] =
                       Append(@, CreateErrorReport(config, NewAddr(heap), NewAddr(heap) + 1))]
    /\ UNCHANGED <<config, files, self_results, self_segments_found, self_query_method,
                   pc, content, segments>>

\* content = f.read()
ReadOk(t) ==
    /\ pc[t] = Idle
    /\ Len(returned[t]) < Len(files[t])
    /\ CurrentFile(t).readable
    /\ content' = [content EXCEPT ![t] = CurrentFile(t).text]
    /\ pc' = [pc EXCEPT ![t] = "reset_results"]
    /\ UNCHANGED <<config, files, heap, self_results, self_segments_found,
                   self_query_method, segments, returned>>

\* self.results = []
ResetResults(t) ==
    /\ pc[t] = "reset_results"
    /\ heap' = Append(heap, <<>>)
    /\ self_results' = NewAddr(heap)
    /\ pc' = [pc EXCEPT ![t] = "reset_segments_found"]
    /\ UNCHANGED <<config, files, self_segments_found, self_query_method,
                   content, segments, returned>>

\* self.segments_found = []
ResetSegmentsFound(t) ==
    /\ pc[t] = "reset_segments_found"
    /\ heap' = Append(heap, <<>>)
    /\ self_segments_found' = NewAddr(heap)
    /\ pc' = [pc EXCEPT ![t] = "split"]
    /\ UNCHANGED <<config, files, self_results, self_query_method,
                   content, segments, returned>>

\* segments = content.split('~'); segments = [s.strip() for s in segments if s.strip()]
SplitSegments(t) ==
    /\ pc[t] = "split"
    /\ segments' = [segments EXCEPT ![t] = ExtractSegments(content[t])]
    /\ pc' = [pc EXCEPT ![t] = "extract_ids"]
    /\ UNCHANGED <<config, files, heap, self_results, self_segments_found,
                   self_query_method, content, returned>>

\* for segment in segments: self.segments_found.append(seg_id)
AppendIds(t) ==
    /\ pc[t] = "extract_ids"
    /\ heap' = [heap EXCEPT ![self_segments_found] = @ \o ExtractIds(segments[t])]
    /\ pc' = [pc EXCEPT ![t] = "validate_envelopes"]
    /\ UNCHANGED <<config, files, self_results, self_segments_found,
                   self_query_method, content, segments, returned>>

\* self._validate_envelopes(segments)
ValidateEnvelopes(t) ==
    /\ pc[t] = "validate_envelopes"
    /\ heap' = [heap EXCEPT ![self_results] = @ \o EnvelopeFindings(config, segments[t])]
    /\ pc' = [pc EXCEPT ![t] = "validate_required_segments"]
    /\ UNCHANGED <<config, files, self_results, self_segments_found,
                   self_query_method, content, segments, returned>>

\* self._validate_required_segments()
ValidateRequiredSegments(t) ==
    /\ pc[t] = "validate_required_segments"
    /\ heap' = [heap EXCEPT ![self_results] =
                   @ \o RequiredFindings(config, heap[self_segments_found])]
    /\ pc' = [pc EXCEPT ![t] = "validate_qre_requirements"]
    /\ UNCHANGED <<config, files, self_results, self_segments_found,
                   self_query_method, content, segments, returned>>

\* self._validate_qre_requirements(segments)
ValidateQreRequirements(t) ==
    /\ pc[t] = "validate_qre_requirements"
    /\ heap' = [heap EXCEPT ![self_results] = @ \o QreFindings(config, segments[t])]
    /\ pc' = [pc EXCEPT ![t] = "detect_query_method"]
    /\ UNCHANGED <<config, files, self_results, self_segments_found,
                   self_query_method, content, segments, returned>>

\* self._detect_query_method(segments)
DetectQueryMethod(t) ==
    /\ pc[t] = "detect_query_method"
    /\ self_query_method' = QueryMethod(segments[t])
    /\ heap' = [heap EXCEPT ![self_results] = @ \o QueryFindings(segments[t])]
    /\ pc' = [pc EXCEPT ![t] = "generate_report"]
    /\ UNCHANGED <<config, files, self_results, self_segments_found,
                   content, segments, returned>>

\* return self._generate_report(file_path)
ReturnReport(t) ==
    /\ pc[t] = "generate_report"
    /\ returned' = [returned EXCEPT ![t] =
                       Append(@, GenerateReport(config, heap, self_results,
                                                self_segments_found, self_query_method))]
    /\ pc' = [pc EXCEPT ![t] = Idle]
    /\ content' = [content EXCEPT ![t] = <<>>]
    /\ segments' = [segments EXCEPT ![t] = <<>>]
    /\ UNCHANGED <<config, files, heap, self_results, self_segments_found,
                   self_query_method>>

Next ==
    \E t \in Threads :
        \/ ReadFail(t)
        \/ ReadOk(t)
        \/ ResetResults(t)
        \/ ResetSegmentsFound(t)
        \/ SplitSegments(t)
        \/ AppendIds(t)
        \/ ValidateEnvelopes(t)
        \/ ValidateRequiredSegments(t)
        \/ ValidateQreRequirements(t)
        \/ DetectQueryMethod(t)
        \/ ReturnReport(t)

(***************************************************************************)
(* Configurations and input files.                                         *)
(***************************************************************************)
\* all sequences over S of length at most n
SeqsUpTo(S, n) == UNION {[1..k -> S] : k \in 0..n}

\* a record of the input: an identifier followed by elements
El(id, e) == id \o <<Star>> \o e

\* the identifiers a configuration may require
ReqIds == {ISA, BHT}

Configs ==
    {[tr3Version |-> "005010X215", validateEnvelopes |-> ve, requiredSegments |-> rs,
      minimalDataPrinciple |-> md, failOnWarnings |-> fw] :
        ve \in BOOLEAN, rs \in SeqsUpTo(ReqIds, MaxReq), md \in BOOLEAN, fw \in BOOLEAN}

\* envelope records: with elements, and the bare identifier
EnvRecords ==
    {El(ISA, <<"0", "0">>), ISA, El(GS, <<"H", "I">>),
     El(ST, T278 \o <<Star, "1", Star, "0", "5", "X", "2", "1", "5">>),
     El(ST, <<"8", "3", "7">> \o <<Star, "1", Star, "0", "5", "X", "2", "1", "7">>),
     El(ST, T278), ST}

\* records of the minimal-data rules
QreRecords ==
    {El(BHT, BHT0007), El(BHT, <<"0", "0", "1", "0">>), BHT,
     El(UM, <<"H", "S">>), UM,
     El(HCR, <<"I", "1">>), El(HCR, <<"Z", "Z">>), HCR}

\* records of the query-method rules
QueryRecords ==
    {El(REF, <<"D", "9", Star, "A">>), El(REF, <<"D", "9">>),
     El(NM1, <<"I", "L", Star, "D">>), El(NM1, <<"I", "L">>),
     El(DMG, <<"D", "8">>), DMG}

\* records with surrounding whitespace, blank records and empty records
LayoutRecords ==
    {<<>>, <<" ">>, <<" ">> \o El(ISA, <<"0", "0">>) \o <<"\n">>,
     <<"\n">> \o El(BHT, BHT0007), El(GS, <<"H", " ", "I">>)}

\* the texts of at most MaxSegs records of one family, joined by '~'
TextsOf(records) == {Join(recs, Tilde) : recs \in SeqsUpTo(records, MaxSegs)}

\* a file: unreadable (open raises), or readable with its text
Unreadable == [readable |-> FALSE, text |-> <<>>]
Readable(text) == [readable |-> TRUE, text |-> text]
FilesOf(texts) == {Unreadable} \cup {Readable(x) : x \in texts}

\* a whole document, and one that identifies the member by demographics
FullText ==
    Join(<<El(ISA, <<"0", "0">>), El(GS, <<"H", "I">>), El(ST, <<"8", "3", "7">>),
           El(BHT, <<"0", "0", "1", "0">>), El(REF, <<"D", "9", Star, "A">>)>>, Tilde)
      \o <<Tilde>>
MemberText == Join(<<El(NM1, <<"I", "L", Star, "D">>), El(DMG, <<"D", "8">>)>>, Tilde)

\* the texts of a single call, of the calls made one after the other, and of
\* the interleaved calls
Texts ==
    TextsOf(EnvRecords) \cup TextsOf(QreRecords) \cup TextsOf(QueryRecords)
        \cup TextsOf(LayoutRecords) \cup {FullText, MemberText}
SeqTexts == {FullText, MemberText, <<>>}
ConcTexts == {FullText, MemberText}

\* __init__, and the files each thread is to analyze
InitWith(files1, files2) ==
    /\ config \in Configs
    /\ files \in {[t \in Threads |-> IF t = 1 THEN f1 ELSE f2] : f1 \in files1, f2 \in files2}
    /\ heap = << <<>>, <<>> >>
    /\ self_results = 1
    /\ self_segments_found = 2
    /\ self_query_method = Unset
    /\ pc = [t \in Threads |-> Idle]
    /\ content = [t \in Threads |-> <<>>]
    /\ segments = [t \in Threads |-> <<>>]
    /\ returned = [t \in Threads |-> <<>>]

\* one call of analyze_file
Init == InitWith({<<f>> : f \in FilesOf(Texts)}, {<<>>})
Spec == Init /\ [][Next]_vars

\* up to MaxRuns calls, one after the other, on the same analyzer
InitSeq == InitWith(SeqsUpTo(FilesOf(SeqTexts), MaxRuns) \ {<<>>}, {<<>>})
SpecSeq == InitSeq /\ [][Next]_vars

\* two threads, one call each, on the same analyzer
InitConc == InitWith({<<f>> : f \in FilesOf(ConcTexts)}, {<<f>> : f \in FilesOf(ConcTexts)})
SpecConc == InitConc /\ [][Next]_vars

(***************************************************************************)
(* What the properties speak of.                                           *)
(***************************************************************************)
\* the calls that have returned: thread t's i-th call
Returned == {<<t, i>> \in Threads \X (1..MaxRuns) : i <= Len(returned[t])}
ReportOf(c) == returned[c[1]][c[2]]
FileOf(c) == files[c[1]][c[2]]

\* the findings and the identifiers a report holds
FindingsOf(r) == heap[r.results]
IdsOf(r) == heap[r.segments_found]

\* the findings of a given code, and how many there are
WithCode(fs, code) == SelectSeq(fs, LAMBDA f : f.code = code)
CodeCount(fs, code) == Len(WithCode(fs, code))

\* the elements of a sequence
Range(seq) == {seq[i] : i \in 1..Len(seq)}

\* the segments of a text, by the definition of a segment: the trimmed,
\* non-empty records between terminators
SegmentsIn(text) == ExtractSegments(text)

\* the segments of a list whose identifier is id
WithId(segs, id) == SelectSeq(segs, LAMBDA sg : SegId(sg) = id)

\* a segment has a second element, and it is e
SecondIs(sg, e) == Len(Split(sg, Star)) >= 2 /\ Split(sg, Star)[2] = e
HasSecond(sg) == Len(Split(sg, Star)) >= 2

(***************************************************************************)
(* C1.  Every report analyze_file returns, the unreadable-file report      *)
(* included, has error_count + warning_count + info_count equal to the     *)
(* number of its findings, and is_valid true exactly when error_count is 0 *)
(* and (failOnWarnings is false or warning_count is 0).                    *)
(***************************************************************************)
ReportCountsAndValidity ==
    \A c \in Returned :
        LET r == ReportOf(c)
        IN  /\ r.error_count + r.warning_count + r.info_count = Len(FindingsOf(r))
            /\ r.is_valid <=>
                   (r.error_count = 0 /\ (~config.failOnWarnings \/ r.warning_count = 0))

\* a report with no error, with warnings and infos, made invalid by failOnWarnings
ReportCountsAndValidityWitness ==
    \E c \in Returned :
        LET r == ReportOf(c)
        IN  /\ FileOf(c).readable
            /\ config.failOnWarnings
            /\ r.error_count = 0 /\ r.warning_count > 0 /\ r.info_count > 0
            /\ ~r.is_valid

(***************************************************************************)
(* C4.  The QRE001 findings of a report are ERRORs and name, in configured *)
(* order, the entries of requiredSegments that do not occur in the         *)
(* report's identifier list: none for an identifier that occurs, none for  *)
(* an empty list, and, requiredSegments being an ordered set (no           *)
(* identifier twice), exactly one for each identifier that does not occur; *)
(* whatever validateEnvelopes and minimalDataPrinciple are.                *)
(***************************************************************************)
NoDuplicates(seq) == \A i, j \in 1..Len(seq) : seq[i] = seq[j] => i = j

RequiredSegmentsReported ==
    \A c \in Returned :
        FileOf(c).readable =>
            LET r == ReportOf(c)
                qre001 == WithCode(FindingsOf(r), "QRE001")
                required == config.requiredSegments
                missing == SelectSeq(required, LAMBDA id : id \notin Range(IdsOf(r)))
            IN  /\ \A k \in 1..Len(qre001) : qre001[k].severity = ERROR
                /\ [k \in 1..Len(qre001) |-> qre001[k].segment] = [k \in 1..Len(missing) |-> Some(missing[k])]
                /\ [k \in 1..Len(qre001) |-> qre001[k].value] = [k \in 1..Len(missing) |-> Some(missing[k])]
                /\ NoDuplicates(required) =>
                       \A id \in Range(required) :
                           Len(SelectSeq(qre001, LAMBDA f : f.segment = Some(id)))
                               = IF id \in Range(IdsOf(r)) THEN 0 ELSE 1

\* two identifiers required and both missing, with envelope validation off
RequiredSegmentsReportedWitness ==
    \E c \in Returned :
        LET r == ReportOf(c)
        IN  /\ FileOf(c).readable
            /\ ~config.validateEnvelopes
            /\ config.requiredSegments = <<BHT, ISA>>
            /\ IdsOf(r) # <<>>
            /\ CodeCount(FindingsOf(r), "QRE001") = Len(config.requiredSegments)

(***************************************************************************)
(* C7.  The report of a file that cannot be read has exactly one finding,  *)
(* the ERROR SYS001, is_valid false (also when failOnWarnings is false),   *)
(* error_count 1, no warning and no info, no identifiers and no query      *)
(* method, whatever earlier analyses on the same analyzer produced.        *)
(***************************************************************************)
UnreadableFileReport ==
    \A c \in Returned :
        ~FileOf(c).readable =>
            LET r == ReportOf(c)
            IN  /\ FindingsOf(r) = <<Sys001>>
                /\ Sys001.severity = ERROR /\ Sys001.code = "SYS001"
                /\ r.is_valid = FALSE
                /\ r.error_count = 1 /\ r.warning_count = 0 /\ r.info_count = 0
                /\ IdsOf(r) = <<>>
                /\ r.query_method = "None"

\* an unreadable file analyzed after a readable one that left findings,
\* identifiers and a query method on the analyzer, failOnWarnings being false
UnreadableFileReportWitness ==
    \E c \in Returned :
        /\ c[2] > 1
        /\ ~FileOf(c).readable
        /\ FileOf(<<c[1], c[2] - 1>>).readable
        /\ ~config.failOnWarnings
        /\ heap[self_results] # <<>>
        /\ heap[self_segments_found] # <<>>
        /\ self_query_method = "ByAuthorizationNumber"

(***************************************************************************)
(* C10.  Extraction is idempotent on its own output: the extracted records *)
(* joined by '~' and extracted again are the same records, with the same   *)
(* identifiers, in the same order, duplicates kept; and a text that is     *)
(* empty or holds terminators only has no records and no identifiers.      *)
(***************************************************************************)
AfterSplit ==
    {"extract_ids", "validate_envelopes", "validate_required_segments",
     "validate_qre_requirements", "detect_query_method", "generate_report"}

OnlyTerminators(text) == \A i \in 1..Len(text) : text[i] = Tilde

ExtractionIdempotent ==
    /\ \A t \in Threads :
           pc[t] \in AfterSplit =>
               LET again == ExtractSegments(Join(segments[t], Tilde))
               IN  /\ again = segments[t]
                   /\ ExtractIds(again) = ExtractIds(segments[t])
                   /\ \A i \in 1..Len(segments[t]) :
                          segments[t][i] # <<>> /\ Strip(segments[t][i]) = segments[t][i]
                   /\ OnlyTerminators(content[t]) => segments[t] = <<>>
    /\ \A c \in Returned :
           FileOf(c).readable =>
               LET segs == ExtractSegments(FileOf(c).text)
               IN  /\ IdsOf(ReportOf(c)) = ExtractIds(ExtractSegments(Join(segs, Tilde)))
                   /\ OnlyTerminators(FileOf(c).text) => IdsOf(ReportOf(c)) = <<>>

\* a text with a blank record that is dropped and a record that is trimmed
ExtractionIdempotentWitness ==
    \E t \in Threads :
        /\ pc[t] = "generate_report"
        /\ Len(Split(content[t], Tilde)) > Len(segments[t])
        /\ \E i \in 1..Len(Split(content[t], Tilde)) :
               LET rec == Split(content[t], Tilde)[i]
               IN  Strip(rec) # <<>> /\ Strip(rec) # rec
        /\ ExtractSegments(Join(segments[t], Tilde)) = segments[t]

\* a text of terminators only, analyzed to the end
TerminatorOnlyWitness ==
    \E c \in Returned :
        /\ FileOf(c).readable
        /\ FileOf(c).text = <<Tilde>>
        /\ IdsOf(ReportOf(c)) = <<>>

(***************************************************************************)
(* C2.  When the input has a segment whose identifier is REF and whose     *)
(* second element is D9, queryMethod is ByAuthorizationNumber and the      *)
(* report has exactly one QRE005 finding, an INFO, and no QRE006 or QRE007 *)
(* finding, whatever the configuration and the NM1 and DMG segments.       *)
(***************************************************************************)
IL == <<"I", "L">>
D9 == <<"D", "9">>

HasRefD9(segs) == \E i \in 1..Len(segs) : SegId(segs[i]) = REF /\ SecondIs(segs[i], D9)
HasNm1Il(segs) == \E i \in 1..Len(segs) : SegId(segs[i]) = NM1 /\ SecondIs(segs[i], IL)
HasDmg(segs) == \E i \in 1..Len(segs) : SegId(segs[i]) = DMG

AuthorizationNumberWins ==
    \A c \in Returned :
        (FileOf(c).readable /\ HasRefD9(SegmentsIn(FileOf(c).text))) =>
            LET r == ReportOf(c)
                fs == FindingsOf(r)
            IN  /\ r.query_method = "ByAuthorizationNumber"
                /\ CodeCount(fs, "QRE005") = 1
                /\ WithCode(fs, "QRE005")[1].severity = INFO
                /\ CodeCount(fs, "QRE006") = 0
                /\ CodeCount(fs, "QRE007") = 0

(***************************************************************************)
(* C3.  When the input has no segment with identifier REF and second       *)
(* element D9: queryMethod is ByMemberDemographics, with one INFO finding  *)
(* QRE006, exactly when the input has a segment with identifier NM1 whose  *)
(* second element is IL and a segment with identifier DMG; otherwise       *)
(* queryMethod is Unknown, with one WARNING finding QRE007.  Every         *)
(* analysis of readable input emits exactly one of QRE005, QRE006, QRE007. *)
(***************************************************************************)
MemberDemographicsOrUnknown ==
    \A c \in Returned :
        FileOf(c).readable =>
            LET r == ReportOf(c)
                fs == FindingsOf(r)
                segs == SegmentsIn(FileOf(c).text)
            IN  /\ CodeCount(fs, "QRE005") + CodeCount(fs, "QRE006")
                       + CodeCount(fs, "QRE007") = 1
                /\ ~HasRefD9(segs) =>
                       IF HasNm1Il(segs) /\ HasDmg(segs)
                       THEN /\ r.query_method = "ByMemberDemographics"
                            /\ CodeCount(fs, "QRE006") = 1
                            /\ WithCode(fs, "QRE006")[1].severity = INFO
                       ELSE /\ r.query_method = "Unknown"
                            /\ CodeCount(fs, "QRE007") = 1
                            /\ WithCode(fs, "QRE007")[1].severity = WARNING

(***************************************************************************)
(* C5.  With validateEnvelopes on and n the number of segments whose       *)
(* identifier is ISA: n = 0 gives exactly one ENV001, an ERROR, and no     *)
(* ENV002; n >= 2 gives exactly one ENV002, a WARNING, and no ENV001;      *)
(* n = 1 gives neither.  With validateEnvelopes off there is no ENV*       *)
(* finding.                                                                *)
(***************************************************************************)
EnvCodes == {"ENV001", "ENV002", "ENV003", "ENV004", "ENV005", "ENV006"}

InterchangeHeaderCount ==
    \A c \in Returned :
        FileOf(c).readable =>
            LET fs == FindingsOf(ReportOf(c))
                n == Len(WithId(SegmentsIn(FileOf(c).text), ISA))
            IN  IF config.validateEnvelopes
                THEN /\ n = 0 => /\ CodeCount(fs, "ENV001") = 1
                                 /\ WithCode(fs, "ENV001")[1].severity = ERROR
                                 /\ CodeCount(fs, "ENV002") = 0
                     /\ n >= 2 => /\ CodeCount(fs, "ENV002") = 1
                                  /\ WithCode(fs, "ENV002")[1].severity = WARNING
                                  /\ CodeCount(fs, "ENV001") = 0
                     /\ n = 1 => /\ CodeCount(fs, "ENV001") = 0
                                 /\ CodeCount(fs, "ENV002") = 0
                ELSE \A k \in 1..Len(fs) : fs[k].code \notin EnvCodes

(***************************************************************************)
(* C6.  With validateEnvelopes on and a segment whose identifier is ST:    *)
(* there is exactly one ENV005, an ERROR, when the first ST segment in     *)
(* document order has a second element other than 278, and none when that  *)
(* element is 278 or is absent, whatever later ST segments hold; and       *)
(* ENV004 is emitted only when no segment has identifier ST.               *)
(***************************************************************************)
TransactionCodeOfFirstSt ==
    \A c \in Returned :
        (FileOf(c).readable /\ config.validateEnvelopes) =>
            LET fs == FindingsOf(ReportOf(c))
                sts == WithId(SegmentsIn(FileOf(c).text), ST)
            IN  /\ CodeCount(fs, "ENV004") > 0 => sts = <<>>
                /\ sts # <<>> =>
                       IF HasSecond(sts[1]) /\ ~SecondIs(sts[1], T278)
                       THEN /\ CodeCount(fs, "ENV005") = 1
                            /\ WithCode(fs, "ENV005")[1].severity = ERROR
                       ELSE CodeCount(fs, "ENV005") = 0

(***************************************************************************)
(* C8.  With minimalDataPrinciple on, the minimal-data pass emits: one     *)
(* WARNING QRE002 iff a BHT segment exists and the second element of the   *)
(* first one is other than 0007; one WARNING QRE003 iff no UM segment      *)
(* exists; one INFO QRE004 iff an HCR segment exists and the second        *)
(* element of the first one is none of I1, A1, A2, A3, A4; and nothing     *)
(* else.  Later BHT and HCR segments are not inspected.  With              *)
(* minimalDataPrinciple off there is no QRE002, QRE003 or QRE004.          *)
(***************************************************************************)
OneIff(fs, code, sev, cond) ==
    IF cond
    THEN CodeCount(fs, code) = 1 /\ WithCode(fs, code)[1].severity = sev
    ELSE CodeCount(fs, code) = 0

MinimalDataFindings ==
    \A c \in Returned :
        FileOf(c).readable =>
            LET fs == FindingsOf(ReportOf(c))
                segs == SegmentsIn(FileOf(c).text)
                bhts == WithId(segs, BHT)
                ums == WithId(segs, UM)
                hcrs == WithId(segs, HCR)
            IN  IF config.minimalDataPrinciple
                THEN /\ OneIff(fs, "QRE002", WARNING,
                               bhts # <<>> /\ HasSecond(bhts[1]) /\ ~SecondIs(bhts[1], BHT0007))
                     /\ OneIff(fs, "QRE003", WARNING, ums = <<>>)
                     /\ OneIff(fs, "QRE004", INFO,
                               hcrs # <<>> /\ HasSecond(hcrs[1])
                                   /\ Split(hcrs[1], Star)[2] \notin HcrCodes)
                ELSE /\ CodeCount(fs, "QRE002") = 0
                     /\ CodeCount(fs, "QRE003") = 0
                     /\ CodeCount(fs, "QRE004") = 0

(***************************************************************************)
(* C9.  Whatever the interleaving of the calls made on one analyzer, each  *)
(* report, when returned and ever after, is the report its call would      *)
(* produce alone on a new analyzer of the same configuration.              *)
(***************************************************************************)
\* a report with its lists in place of their addresses
ReportValue(r) ==
    [tr3_version |-> r.tr3_version, is_valid |-> r.is_valid,
     error_count |-> r.error_count, warning_count |-> r.warning_count,
     info_count |-> r.info_count, results |-> heap[r.results],
     query_method |-> r.query_method, segments_found |-> heap[r.segments_found]]

\* the report of one call of analyze_file on a new analyzer
ReportAlone(cfg, file) ==
    IF ~file.readable
    THEN [tr3_version |-> cfg.tr3Version, is_valid |-> FALSE,
          error_count |-> 1, warning_count |-> 0, info_count |-> 0,
          results |-> <<Sys001>>, query_method |-> "None", segments_found |-> <<>>]
    ELSE LET segs == ExtractSegments(file.text)
             ids == ExtractIds(segs)
             fs == EnvelopeFindings(cfg, segs) \o RequiredFindings(cfg, ids)
                       \o QreFindings(cfg, segs) \o QueryFindings(segs)
         IN  [tr3_version |-> cfg.tr3Version,
              is_valid |-> IsValid(cfg, CountSeverity(fs, ERROR), CountSeverity(fs, WARNING)),
              error_count |-> CountSeverity(fs, ERROR),
              warning_count |-> CountSeverity(fs, WARNING),
              info_count |-> CountSeverity(fs, INFO),
              results |-> fs, query_method |-> QueryMethod(segs), segments_found |-> ids]

RunsIndependent ==
    \A c \in Returned : ReportValue(ReportOf(c)) = ReportAlone(config, FileOf(c))

====
